---- MODULE Spec2Model ----
(***************************************************************************)
(* Model of the "Chat with PDF" application: app.py (the Streamlit front   *)
(* end, re-executed top to bottom after every user interaction) and        *)
(* vectors.py (EmbeddingsManager.create_embeddings).                       *)
(*                                                                         *)
(* A script run is split into the steps Start, Col1, Col2, Col3 (the three *)
(* columns of the Chatbot page).  Between runs the session is idle and the *)
(* user may interact with a widget that the last run rendered; every       *)
(* interaction starts one script run.  Widget values (selectbox, file      *)
(* uploader, checkbox) persist between runs as Streamlit keeps them; the   *)
(* chat input holds a value only in the run its submission started.  A     *)
(* run is taken to end before the next interaction starts one (section 5   *)
(* of the specification: one request/response cycle per interaction).      *)
(*                                                                         *)
(* The loader, the splitter, the vector database, the embedding model and  *)
(* the chat wrapper are external: each call returns or raises, chosen      *)
(* nondeterministically.  Exceptions are the subclasses of Exception.      *)
(***************************************************************************)
EXTENDS Integers, Sequences, FiniteSets, TLC

\* ------------------------------------------------------------------ bounds
NumFiles == 2       \* distinct PDFs the user may upload
NumInputs == 1      \* distinct chat messages the user may type
NumAnswers == 1     \* distinct answers get_response may return
MaxDocs == 1        \* most documents the loader returns
MaxChunks == 1      \* most chunks the splitter returns
MaxMessages == 4    \* chat is submitted only while the transcript is shorter

\* --------------------------------------------------------------- constants
None == "None"
TEMP_PDF == "temp.pdf"
Home == "Home"
Chatbot == "Chatbot"
SUCCESS_MSG == "Vector DB Successfully Created and Stored in Qdrant!"

\* ------------------------------------------------------- exception classes
\* The part of Python's built-in exception hierarchy that the except
\* clauses of app.py tell apart.
ExcClasses ==
  {"Exception", "OSError", "FileNotFoundError", "ConnectionError",
   "ConnectionRefusedError", "ValueError", "UnicodeDecodeError",
   "RuntimeError"}

ExcParent(c) ==
  CASE c = "FileNotFoundError" -> "OSError"
    [] c = "ConnectionError" -> "OSError"
    [] c = "ConnectionRefusedError" -> "ConnectionError"
    [] c = "UnicodeDecodeError" -> "ValueError"
    [] OTHER -> "Exception"

RECURSIVE IsInstance(_, _)
IsInstance(c, k) ==
  IF c = k THEN TRUE
  ELSE IF c = "Exception" THEN FALSE
  ELSE IsInstance(ExcParent(c), k)

\* Classes an external call may raise: one below each except clause of the
\* front end, and one that only the last clause matches.
ExtExc ==
  {"FileNotFoundError", "UnicodeDecodeError", "ConnectionRefusedError",
   "RuntimeError"}

\* An outcome of an external call: exc = "" means it returned ret.
Returned(n) == [exc |-> "", ret |-> n]
Raised(c) == [exc |-> c, ret |-> 0]
Raises == {Raised(c) : c \in ExtExc}
CtorOutcomes == {Returned(1)} \cup Raises
LoaderOutcomes == {Returned(n) : n \in 0..MaxDocs} \cup Raises
SplitterOutcomes == {Returned(n) : n \in 0..MaxChunks} \cup Raises
QdrantOutcomes == {Returned(1)} \cup Raises
\* get_response returns an answer or raises; the front end has one except
\* clause for it, so two classes stand for everything it may raise.
ResponseOutcomes ==
  {Returned(n) : n \in 1..NumAnswers} \cup
  {Raised("ConnectionRefusedError"), Raised("RuntimeError")}

\* A logged call of an external or of create_embeddings.
Call(fn, arg, out) == [fn |-> fn, arg |-> arg, exc |-> out.exc, ret |-> out.ret]

\* Whether the calls cs hold a call of fn, one that returned, one that raised.
HasCall(cs, fn) == \E i \in 1..Len(cs) : cs[i].fn = fn
Returns(cs, fn) == \E i \in 1..Len(cs) : cs[i].fn = fn /\ cs[i].exc = ""
Throws(cs, fn) == \E i \in 1..Len(cs) : cs[i].fn = fn /\ cs[i].exc # ""

\* An element shown on the page.
Shown(widget, generic, cls, text) ==
  [widget |-> widget, generic |-> generic, cls |-> cls, text |-> text]

\* Message texts.
UserText(i) == <<"user_text", i>>
AnswerText(n) == <<"answer", n>>
ErrorText(c) == <<"error_text", c>>
Message(role, content) == [role |-> role, content |-> content]

VARIABLES
  temp_pdf_path,      \* st.session_state['temp_pdf_path']
  chatbot_manager,    \* st.session_state['chatbot_manager']: 0 is None
  messages,           \* st.session_state['messages']
  choice,             \* value of the Navigate selectbox
  uploaded_file,      \* value of the file uploader: 0 is None
  create_embeddings,  \* value of the Create Embeddings checkbox
  user_input,         \* value of the chat input in this run: 0 is None
  temp_file,          \* content of temp.pdf: 0 absent, -1 partly written
  pc,                 \* position of the script: idle, start, col1..col3
  page,               \* widgets the last run rendered
  trigger,            \* the interaction that started the current run
  calls,              \* calls made so far by the current run
  display,            \* elements shown so far by the current run
  constructed,        \* ChatBotManager objects constructed in the session
  written,            \* a write of an upload to temp.pdf has completed
  last_attempt,       \* how the session's last indexing attempt ended
  indexed             \* create_embeddings has returned in the session

vars ==
  <<temp_pdf_path, chatbot_manager, messages, choice, uploaded_file,
    create_embeddings, user_input, temp_file, pc, page, trigger, calls,
    display, constructed, written, last_attempt, indexed>>

session == <<temp_pdf_path, chatbot_manager, messages>>
history == <<constructed, written, last_attempt, indexed>>

\* The widgets of the Chatbot page that a run rendered.
Page(u, c, i) == [uploader |-> u, checkbox |-> c, chat_input |-> i]
NoPage == Page(FALSE, FALSE, FALSE)

\* Lines 22-29 and the first rendering of the sidebar: the session starts
\* with the first script run, on the Home page.
Init ==
  /\ temp_pdf_path = None
  /\ chatbot_manager = 0
  /\ messages = <<>>
  /\ choice = Home
  /\ uploaded_file = 0
  /\ create_embeddings = FALSE
  /\ user_input = 0
  /\ temp_file \in {0, 1}
  /\ pc = "start"
  /\ page = NoPage
  /\ trigger = "load"
  /\ calls = <<>>
  /\ display = <<>>
  /\ constructed = 0
  /\ written = FALSE
  /\ last_attempt = "none"
  /\ indexed = FALSE

\* ---------------------------------------------------------------- vectors.py
\* The result of a call: the external calls it made, and either the value
\* it returned (exc = "") or the exception it raised and where from.
Result(cs, exc, origin, ret) ==
  [calls |-> cs, exc |-> exc, origin |-> origin, ret |-> ret]

\* create_embeddings without the check of lines 49-50.
CreateEmbeddingsNoPathCheck(pdf_path, exists, ld, sp, qd) ==
  LET c1 == <<Call("loader.load", pdf_path, ld)>>
      c2 == Append(c1, Call("split_documents", pdf_path, sp))
      c3 == Append(c2, Call("Qdrant.from_documents", pdf_path, qd))
  IN  IF ld.exc # "" THEN Result(c1, ld.exc, "loader", 0)
      ELSE IF ld.ret = 0 THEN Result(c1, "ValueError", "no_documents", 0)
      ELSE IF sp.exc # "" THEN Result(c2, sp.exc, "splitter", 0)
      ELSE IF sp.ret = 0 THEN Result(c2, "ValueError", "no_chunks", 0)
      ELSE IF qd.exc # "" THEN Result(c3, "ConnectionError", "qdrant", 0)
      ELSE Result(c3, "", "", 1)

\* create_embeddings without the checks of lines 56-57 and 63-64.
CreateEmbeddingsNoEmptyCheck(pdf_path, exists, ld, sp, qd) ==
  LET c0 == <<Call("os.path.exists", pdf_path, Returned(IF exists THEN 1 ELSE 0))>>
      c1 == Append(c0, Call("loader.load", pdf_path, ld))
      c2 == Append(c1, Call("split_documents", pdf_path, sp))
      c3 == Append(c2, Call("Qdrant.from_documents", pdf_path, qd))
  IN  IF ~exists THEN Result(c0, "FileNotFoundError", "path_check", 0)
      ELSE IF ld.exc # "" THEN Result(c1, ld.exc, "loader", 0)
      ELSE IF sp.exc # "" THEN Result(c2, sp.exc, "splitter", 0)
      ELSE IF qd.exc # "" THEN Result(c3, "ConnectionError", "qdrant", 0)
      ELSE Result(c3, "", "", 1)

\* create_embeddings without the try statement of lines 67-76: what the
\* store step raises leaves create_embeddings as it is.
CreateEmbeddingsNoWrap(pdf_path, exists, ld, sp, qd) ==
  LET c0 == <<Call("os.path.exists", pdf_path, Returned(IF exists THEN 1 ELSE 0))>>
      c1 == Append(c0, Call("loader.load", pdf_path, ld))
      c2 == Append(c1, Call("split_documents", pdf_path, sp))
      c3 == Append(c2, Call("Qdrant.from_documents", pdf_path, qd))
  IN  IF ~exists THEN Result(c0, "FileNotFoundError", "path_check", 0)
      ELSE IF ld.exc # "" THEN Result(c1, ld.exc, "loader", 0)
      ELSE IF ld.ret = 0 THEN Result(c1, "ValueError", "no_documents", 0)
      ELSE IF sp.exc # "" THEN Result(c2, sp.exc, "splitter", 0)
      ELSE IF sp.ret = 0 THEN Result(c2, "ValueError", "no_chunks", 0)
      ELSE IF qd.exc # "" THEN Result(c3, qd.exc, "qdrant", 0)
      ELSE Result(c3, "", "", 1)

\* EmbeddingsManager.create_embeddings(pdf_path).  exists is the answer of
\* os.path.exists; ld, sp and qd are the outcomes the loader, the splitter
\* and Qdrant.from_documents have if they are called.
CreateEmbeddings(pdf_path, exists, ld, sp, qd) ==
  LET c0 == <<Call("os.path.exists", pdf_path, Returned(IF exists THEN 1 ELSE 0))>>
      c1 == Append(c0, Call("loader.load", pdf_path, ld))
      c2 == Append(c1, Call("split_documents", pdf_path, sp))
      c3 == Append(c2, Call("Qdrant.from_documents", pdf_path, qd))
  IN  IF ~exists THEN Result(c0, "FileNotFoundError", "path_check", 0)
      ELSE IF ld.exc # "" THEN Result(c1, ld.exc, "loader", 0)
      ELSE IF ld.ret = 0 THEN Result(c1, "ValueError", "no_documents", 0)
      ELSE IF sp.exc # "" THEN Result(c2, sp.exc, "splitter", 0)
      ELSE IF sp.ret = 0 THEN Result(c2, "ValueError", "no_chunks", 0)
      ELSE IF qd.exc # "" THEN Result(c3, "ConnectionError", "qdrant", 0)
      ELSE Result(c3, "", "", 1)

\* -------------------------------------------------------------------- app.py
\* The handler without its last except clause: an exception of no named
\* class leaves the handler and Streamlit shows it as uncaught.
ShowErrorNoGeneric(cls, text) ==
  IF IsInstance(cls, "FileNotFoundError") THEN Shown("error", FALSE, cls, text)
  ELSE IF IsInstance(cls, "ValueError") THEN Shown("error", FALSE, cls, text)
  ELSE IF IsInstance(cls, "ConnectionError") THEN Shown("error", FALSE, cls, text)
  ELSE Shown("exception", FALSE, cls, text)

\* The except clauses of the Create Embeddings handler, in order: the first
\* three show the exception itself, the last one the generic message.
ShowError(cls, text) ==
  IF IsInstance(cls, "FileNotFoundError") THEN Shown("error", FALSE, cls, text)
  ELSE IF IsInstance(cls, "ValueError") THEN Shown("error", FALSE, cls, text)
  ELSE IF IsInstance(cls, "ConnectionError") THEN Shown("error", FALSE, cls, text)
  ELSE Shown("error", TRUE, cls, text)

\* Line 118 without its condition: every successful indexing constructs a
\* new chatbot manager.
HasManagerNever(manager) == FALSE

\* Line 118: a chatbot manager is constructed only if the session has none.
HasManager(manager) == manager # 0

\* Line 98 without its condition: the handler indexes whatever the path is.
NeedsUploadNever(path) == FALSE

\* Line 98: without a saved upload the handler only warns.
NeedsUpload(path) == path = None

\* Line 140 without its condition: the chat input is always offered.
ChatDisabledNever(manager) == FALSE

\* Line 140: without a chatbot manager the chat column only shows a hint.
ChatDisabled(manager) == manager = 0

\* The try statement of the Create Embeddings handler (lines 101-135): what
\* it calls, what it shows, and the chatbot manager it leaves in the session.
\* em and cb are the outcomes of the two constructors.
TryIndexing(path, exists, em, ld, sp, qd, cb, manager, count) ==
  LET e0 == <<Call("EmbeddingsManager", path, em)>>
      r == CreateEmbeddings(path, exists, ld, sp, qd)
      e1 == Append(e0 \o r.calls,
                   Call("create_embeddings", path, [exc |-> r.exc, ret |-> r.ret]))
      ok == <<Shown("success", FALSE, "", SUCCESS_MSG)>>
      e2 == Append(e1, Call("ChatBotManager", path,
                            [exc |-> cb.exc, ret |-> IF cb.exc = "" THEN count + 1 ELSE 0]))
      Out(cs, ds, m, n) ==
        [calls |-> cs, display |-> ds, chatbot_manager |-> m, constructed |-> n]
  IN  IF em.exc # "" THEN
        Out(e0, <<ShowError(em.exc, "EmbeddingsManager")>>, manager, count)
      ELSE IF r.exc # "" THEN
        Out(e1, <<ShowError(r.exc, r.origin)>>, manager, count)
      ELSE IF HasManager(manager) THEN
        Out(e1, ok, manager, count)
      ELSE IF cb.exc # "" THEN
        Out(e2, Append(ok, ShowError(cb.exc, "ChatBotManager")), manager, count)
      ELSE
        Out(e2, ok, count + 1, count + 1)

\* os.path.exists: temp.pdf is the only file of the model.
PathExists(path) == path = TEMP_PDF /\ temp_file # 0

\* ------------------------------------------------------- user interactions
\* Streamlit re-executes the script from the top after every interaction.
BeginRun(t) ==
  /\ pc = "idle"
  /\ pc' = "start"
  /\ trigger' = t
  /\ calls' = <<>>
  /\ display' = <<>>
  /\ UNCHANGED <<session, temp_file, page, history>>

\* The Navigate selectbox of the sidebar (lines 46-47).
Navigate ==
  /\ BeginRun("navigate")
  /\ choice' = IF choice = Home THEN Chatbot ELSE Home
  /\ UNCHANGED <<uploaded_file, create_embeddings, user_input>>

\* The file uploader (line 74): a file is chosen, or the chosen one removed.
Upload ==
  /\ page.uploader
  /\ BeginRun("upload")
  /\ \E f \in 0..NumFiles : f # uploaded_file /\ uploaded_file' = f
  /\ UNCHANGED <<choice, create_embeddings, user_input>>

\* The Create Embeddings checkbox (line 96) is ticked or unticked.
Toggle ==
  /\ page.checkbox
  /\ BeginRun(IF create_embeddings THEN "untick" ELSE "tick")
  /\ create_embeddings' = ~create_embeddings
  /\ UNCHANGED <<choice, uploaded_file, user_input>>

\* The chat input (line 155): a non-empty message is submitted.
SubmitChat ==
  /\ page.chat_input
  /\ Len(messages) + 2 <= MaxMessages
  /\ BeginRun("chat")
  /\ \E i \in 1..NumInputs : user_input' = i
  /\ UNCHANGED <<choice, uploaded_file, create_embeddings>>

\* temp.pdf is a file of the working directory: it may be removed from
\* outside the application at any time.
DeleteTempFile ==
  /\ temp_file # 0
  /\ temp_file' = 0
  /\ UNCHANGED <<session, choice, uploaded_file, create_embeddings, user_input,
                 pc, page, trigger, calls, display, history>>

\* ------------------------------------------------------------ the script run
\* Lines 22-69.  On the Home page none of the Chatbot page's widgets is
\* rendered, and Streamlit discards the value of a widget that a completed
\* run did not render.
Start ==
  /\ pc = "start"
  /\ IF choice = Home
     THEN /\ pc' = "idle"
          /\ page' = NoPage
          /\ uploaded_file' = 0
          /\ create_embeddings' = FALSE
          /\ user_input' = 0
          /\ display' = Append(display, Shown("home", FALSE, "", ""))
     ELSE /\ pc' = "col1"
          /\ UNCHANGED <<page, uploaded_file, create_embeddings, user_input, display>>
  /\ UNCHANGED <<session, choice, temp_file, trigger, calls, history>>

\* An exception that no except clause catches ends the script run: Streamlit
\* shows it, and the widgets after that point are not rendered.
Crash(cls, text) ==
  /\ pc' = "idle"
  /\ page' = Page(TRUE, FALSE, FALSE)
  /\ user_input' = 0
  /\ display' = display \o <<Shown("success", FALSE, "", "File Uploaded Successfully!"),
                            Shown("exception", FALSE, cls, text)>>

\* Column 1, lines 72-91: the uploaded file is previewed and saved to
\* temp.pdf.  open() or write() may fail; write() then leaves a partly
\* written file.
Col1 ==
  /\ pc = "col1"
  /\ IF uploaded_file = 0
     THEN /\ pc' = "col2"
          /\ UNCHANGED <<temp_pdf_path, temp_file, written, page, user_input, display>>
     ELSE \/ /\ temp_file' = uploaded_file
             /\ temp_pdf_path' = TEMP_PDF
             /\ written' = TRUE
             /\ pc' = "col2"
             /\ display' = Append(display,
                  Shown("success", FALSE, "", "File Uploaded Successfully!"))
             /\ UNCHANGED <<page, user_input>>
          \/ /\ Crash("OSError", "open")
             /\ UNCHANGED <<temp_pdf_path, temp_file, written>>
          \/ /\ Crash("OSError", "write")
             /\ temp_file' = -1
             /\ UNCHANGED <<temp_pdf_path, written>>
  /\ UNCHANGED <<chatbot_manager, messages, choice, uploaded_file,
                 create_embeddings, trigger, calls, constructed, last_attempt,
                 indexed>>

\* The outcomes to choose from for an external call: a call that the
\* outcomes of the earlier calls keep from being made has no outcome.
Reached(made, outcomes) == IF made THEN outcomes ELSE {Returned(0)}

\* Column 2, lines 94-135: the Create Embeddings handler.
Col2 ==
  /\ pc = "col2"
  /\ pc' = "col3"
  /\ IF ~create_embeddings
     THEN UNCHANGED <<chatbot_manager, calls, display, constructed, last_attempt,
                      indexed>>
     ELSE IF NeedsUpload(temp_pdf_path)
     THEN /\ display' = Append(display,
               Shown("warning", FALSE, "", "Please upload a PDF first."))
          /\ UNCHANGED <<chatbot_manager, calls, constructed, last_attempt, indexed>>
     ELSE \E em \in CtorOutcomes :
          \E ld \in Reached(em.exc = "" /\ PathExists(temp_pdf_path), LoaderOutcomes) :
          \E sp \in Reached(ld.exc = "" /\ ld.ret > 0, SplitterOutcomes) :
          \E qd \in Reached(sp.exc = "" /\ sp.ret > 0, QdrantOutcomes) :
          \E cb \in Reached(qd.exc = "" /\ qd.ret > 0 /\ ~HasManager(chatbot_manager),
                           CtorOutcomes) :
            LET t == TryIndexing(temp_pdf_path, PathExists(temp_pdf_path),
                                 em, ld, sp, qd, cb, chatbot_manager, constructed)
            IN  /\ calls' = calls \o t.calls
                /\ display' = display \o t.display
                /\ chatbot_manager' = t.chatbot_manager
                /\ constructed' = t.constructed
                /\ last_attempt' =
                     IF \E i \in 1..Len(t.display) : t.display[i].widget = "error"
                     THEN "failed" ELSE "succeeded"
                /\ indexed' = (indexed \/ Returns(t.calls, "create_embeddings"))
  /\ UNCHANGED <<temp_pdf_path, messages, choice, uploaded_file, create_embeddings,
                 user_input, temp_file, page, trigger, written>>

\* ChatBotManager.get_response(user_input) returns an answer or raises; the
\* except clause of line 167 turns every exception into an error text.
GetResponse(out) ==
  IF out.exc = "" THEN AnswerText(out.ret) ELSE ErrorText(out.exc)

\* The exchange replaces the transcript instead of joining it.
HandleInputOverwrite(msgs, input, answer) ==
  <<Message("user", UserText(input)), Message("assistant", answer)>>

\* The answer is stored under a role that the display loop does not know.
HandleInputBotRole(msgs, input, answer) ==
  Append(Append(msgs, Message("user", UserText(input))),
         Message("bot", answer))

\* Lines 157-172: the submitted message and its answer join the transcript.
HandleInput(msgs, input, answer) ==
  Append(Append(msgs, Message("user", UserText(input))),
         Message("assistant", answer))

\* Column 3, lines 137-172: the chat interface, which ends the run.
Col3 ==
  /\ pc = "col3"
  /\ pc' = "idle"
  /\ user_input' = 0
  /\ IF ChatDisabled(chatbot_manager)
     THEN /\ page' = Page(TRUE, TRUE, FALSE)
          /\ display' = Append(display, Shown("info", FALSE, "",
               "Please upload a PDF and create embeddings to start chatting!"))
          /\ UNCHANGED <<messages, calls>>
     ELSE /\ page' = Page(TRUE, TRUE, TRUE)
          /\ IF user_input = 0
             THEN UNCHANGED <<messages, calls, display>>
             ELSE \E out \in ResponseOutcomes :
                    /\ calls' = Append(calls, Call("get_response", UserText(user_input), out))
                    /\ messages' = HandleInput(messages, user_input, GetResponse(out))
                    /\ display' = display \o
                         <<Shown("chat_message", FALSE, "", "user"),
                           Shown("chat_message", FALSE, "", "assistant")>>
  /\ UNCHANGED <<temp_pdf_path, chatbot_manager, choice, uploaded_file,
                 create_embeddings, temp_file, trigger, history>>

Next ==
  \/ Navigate
  \/ Upload
  \/ Toggle
  \/ SubmitChat
  \/ DeleteTempFile
  \/ Start
  \/ Col1
  \/ Col2
  \/ Col3

Spec == Init /\ [][Next]_vars

\* ------------------------------------------------------------------ claims
\* A step of the Create Embeddings handler, and one that attempts indexing.
HandlerStep == pc = "col2" /\ pc' = "col3"
IndexingStep == HandlerStep /\ HasCall(calls', "create_embeddings")

\* The call of fn among the calls cs.
TheCall(cs, fn) == cs[CHOOSE i \in 1..Len(cs) : cs[i].fn = fn]
Last(seq) == seq[Len(seq)]
ShowsSuccess(ds) == \E i \in 1..Len(ds) : ds[i].text = SUCCESS_MSG

\* C1: a chat submission handled while a chatbot manager exists leaves the
\* transcript equal to the one before it followed by the user's message and
\* then the assistant's response, which is the answer of get_response or,
\* if get_response raised, the error text.
C1_ChatAppendsExchange ==
  [][(pc = "col3" /\ pc' = "idle" /\ user_input # 0 /\ chatbot_manager # 0) =>
       /\ calls' # <<>>
       /\ Last(calls').fn = "get_response"
       /\ Last(calls').arg = UserText(user_input)
       /\ LET c == Last(calls')
              response == IF c.exc = "" THEN AnswerText(c.ret) ELSE ErrorText(c.exc)
          IN  messages' = messages \o <<Message("user", UserText(user_input)),
                                        Message("assistant", response)>>]_vars

\* A second exchange has been handled, and get_response raised in it.
C1_Witness ==
  /\ pc = "idle"
  /\ trigger = "chat"
  /\ Len(messages) = 4
  /\ messages[4].content[1] = "error_text"
  /\ Throws(calls, "get_response")

\* C2: create_embeddings on a path that does not exist raises
\* FileNotFoundError without calling the loader, the splitter or the vector
\* database; the front end shows that error and leaves the chatbot manager
\* and the transcript as they were.
C2_MissingFile ==
  [][(IndexingStep /\ ~PathExists(temp_pdf_path)) =>
       /\ TheCall(calls', "create_embeddings").exc = "FileNotFoundError"
       /\ ~HasCall(calls', "loader.load")
       /\ ~HasCall(calls', "split_documents")
       /\ ~HasCall(calls', "Qdrant.from_documents")
       /\ Last(display') = Shown("error", FALSE, "FileNotFoundError", "path_check")
       /\ chatbot_manager' = chatbot_manager
       /\ messages' = messages]_vars

\* The missing file was reported in a session that already chats.
C2_Witness ==
  /\ pc = "col3"
  /\ display # <<>>
  /\ Last(display) = Shown("error", FALSE, "FileNotFoundError", "path_check")
  /\ chatbot_manager # 0
  /\ messages # <<>>

\* C3: when the loader returns no documents or the splitter returns no
\* chunks, create_embeddings raises ValueError, the vector database is not
\* called, the front end shows the error and constructs no chatbot manager.
C3_EmptyContent ==
  [][(/\ IndexingStep
      /\ \/ \E i \in 1..Len(calls') :
              calls'[i].fn = "loader.load" /\ calls'[i].exc = "" /\ calls'[i].ret = 0
         \/ \E i \in 1..Len(calls') :
              calls'[i].fn = "split_documents" /\ calls'[i].exc = "" /\ calls'[i].ret = 0) =>
       /\ TheCall(calls', "create_embeddings").exc = "ValueError"
       /\ ~HasCall(calls', "Qdrant.from_documents")
       /\ Last(display').widget = "error"
       /\ Last(display').cls = "ValueError"
       /\ ~Last(display').generic
       /\ ~HasCall(calls', "ChatBotManager")
       /\ chatbot_manager' = chatbot_manager
       /\ constructed' = constructed]_vars

\* The splitter returned no chunks and the error is on the page.
C3_Witness ==
  /\ pc = "col3"
  /\ display # <<>>
  /\ Last(display) = Shown("error", FALSE, "ValueError", "no_chunks")
  /\ \E i \in 1..Len(calls) : calls[i].fn = "split_documents" /\ calls[i].ret = 0
                               /\ calls[i].exc = ""

\* C4: whatever the store step of the vector database raises,
\* create_embeddings raises ConnectionError, the front end shows it as an
\* error, shows no success message, and the run goes on to the chat column.
C4_StoreFailure ==
  [][(HandlerStep /\ Throws(calls', "Qdrant.from_documents")) =>
       /\ HasCall(calls', "create_embeddings")
       /\ TheCall(calls', "create_embeddings").exc = "ConnectionError"
       /\ Last(display') = Shown("error", FALSE, "ConnectionError", "qdrant")
       /\ ~ShowsSuccess(display')
       /\ pc' = "col3"]_vars

\* The store step raised something that is not a ConnectionError.
C4_Witness ==
  /\ pc = "col3"
  /\ HasCall(calls, "Qdrant.from_documents")
  /\ TheCall(calls, "Qdrant.from_documents").exc = "RuntimeError"
  /\ Last(display).cls = "ConnectionError"

\* The three parts of the indexing step, and the exceptions they raised.
IndexingParts == {"EmbeddingsManager", "create_embeddings", "ChatBotManager"}
PartExceptions(cs) ==
  {cs[i].exc : i \in {j \in 1..Len(cs) : cs[j].fn \in IndexingParts /\ cs[j].exc # ""}}
ShownDirectly(c) ==
  \/ IsInstance(c, "FileNotFoundError")
  \/ IsInstance(c, "ValueError")
  \/ IsInstance(c, "ConnectionError")

\* C5: an exception raised by any part of the indexing step is caught and
\* shown as an error, through the generic message exactly when it is not a
\* FileNotFoundError, a ValueError or a ConnectionError; the chatbot manager
\* and the transcript keep the values they had before the attempt.
C5_AllCaught ==
  [][HandlerStep =>
       \A c \in PartExceptions(calls') :
         /\ Last(display').widget = "error"
         /\ Last(display').cls = c
         /\ Last(display').generic = ~ShownDirectly(c)
         /\ chatbot_manager' = chatbot_manager
         /\ messages' = messages
         /\ pc' = "col3"]_vars

\* Constructing the ChatBotManager failed with an exception of no named class.
C5_Witness ==
  /\ pc = "col3"
  /\ Throws(calls, "ChatBotManager")
  /\ Last(display) = Shown("error", TRUE, "RuntimeError", "ChatBotManager")
  /\ chatbot_manager = 0

\* C6: every entry of the transcript has the role user or assistant and a
\* text as content.
C6_RolesAndContent ==
  \A i \in 1..Len(messages) :
    /\ DOMAIN messages[i] = {"role", "content"}
    /\ messages[i].role \in {"user", "assistant"}
    /\ \/ messages[i].content[1] = "user_text" /\ messages[i].content[2] \in 1..NumInputs
       \/ messages[i].content[1] = "answer" /\ messages[i].content[2] \in 1..NumAnswers
       \/ messages[i].content[1] = "error_text" /\ messages[i].content[2] \in ExcClasses

\* The transcript holds an answer and an error text.
C6_Witness ==
  /\ Len(messages) >= 4
  /\ \E i \in 1..Len(messages) : messages[i].content[1] = "answer"
  /\ \E i \in 1..Len(messages) : messages[i].content[1] = "error_text"

\* C7: after a failed indexing attempt, a run that was not started by
\* ticking the Create Embeddings checkbox does not call create_embeddings,
\* and no run calls it more than once.
C7_NoReattempt ==
  [][HandlerStep =>
       /\ (last_attempt = "failed" /\ trigger # "tick") =>
            ~HasCall(calls', "create_embeddings")
       /\ Cardinality({i \in 1..Len(calls') : calls'[i].fn = "create_embeddings"}) <= 1]_vars

\* C8: every call of create_embeddings gets the path temp.pdf and comes
\* after a completed write of an upload to that path; as long as no write
\* has completed, the handler of a ticked checkbox shows the warning and
\* calls nothing.
C8_WrittenBeforeIndexed ==
  /\ [](\A i \in 1..Len(calls) :
          calls[i].fn = "create_embeddings" => calls[i].arg = TEMP_PDF /\ written)
  /\ [][(HandlerStep /\ create_embeddings /\ ~written) =>
          /\ calls' = <<>>
          /\ Last(display') = Shown("warning", FALSE, "", "Please upload a PDF first.")]_vars

\* Indexing was called on the saved path after the upload was removed from
\* the uploader.
C8_Witness ==
  /\ pc = "col3"
  /\ HasCall(calls, "create_embeddings")
  /\ TheCall(calls, "create_embeddings").arg = TEMP_PDF
  /\ uploaded_file = 0
  /\ written

\* C9: the chatbot manager becomes non-None only in a handler step in which
\* create_embeddings returned and its success message was shown; the
\* transcript grows and get_response is called only while a chatbot manager
\* exists; so a non-empty transcript implies an earlier successful indexing.
C9_ChatGated ==
  /\ [][(chatbot_manager = 0 /\ chatbot_manager' # 0) =>
          /\ HandlerStep
          /\ Returns(calls', "create_embeddings")
          /\ ShowsSuccess(display')]_vars
  /\ [][(messages' # messages \/ (calls' # calls /\ HasCall(calls', "get_response"))) =>
          chatbot_manager # 0]_vars
  /\ [](messages # <<>> => indexed)

\* A message was answered.
C9_Witness ==
  /\ messages # <<>>
  /\ indexed
  /\ chatbot_manager # 0
  /\ HasCall(calls, "get_response")

\* C10: a chatbot manager is constructed at most once in a session; once
\* the session holds one it keeps that one in every later step, and a run
\* of the Chatbot page that ends after a failed indexing attempt still
\* offers the chat input.
C10_ManagerKept ==
  /\ [][chatbot_manager # 0 => chatbot_manager' = chatbot_manager]_vars
  /\ [](constructed <= 1)
  /\ []((pc = "idle" /\ page.checkbox /\ chatbot_manager # 0) => page.chat_input)

\* Indexing was repeated on a new upload and failed; chat is still offered.
C10_Witness ==
  /\ pc = "idle"
  /\ trigger = "upload"
  /\ chatbot_manager # 0
  /\ last_attempt = "failed"
  /\ HasCall(calls, "create_embeddings")
  /\ page.chat_input

====
